---- MODULE Spec2Model ----
(***************************************************************************)
(* django-geckoboard: the widget decorators of decorators.py.              *)
(*                                                                         *)
(* A decorated view handles a request in four steps (_wrapped_view): the   *)
(* API key check, the call of the view, the conversion of the view's       *)
(* result by the decorator class, and the rendering of the converted data  *)
(* as JSON or XML.                                                         *)
(*                                                                         *)
(* Python values are tagged records [k, v]:                                *)
(*   k = "int"  v = the integer          k = "str"  v = the string         *)
(*   k = "none" v = 0                    k = "list" v = sequence of values *)
(*   k = "dict" v = sequence of <<key, value>> in the mapping's iteration  *)
(*                order (insertion order for a SortedDict)                 *)
(*   k = "bool" v = TRUE / FALSE                                           *)
(*   k = "float" v = the number in hundredths (the only floats the code    *)
(*                makes are float('%.2f' % x))                             *)
(* A tuple and a list are both "list": the code only ever asks             *)
(* isinstance(x, (tuple, list)).                                           *)
(* Byte strings whose characters the code inspects (the Authorization      *)
(* header, the API key) are sequences of character codes.                  *)
(***************************************************************************)
EXTENDS Integers, Sequences, FiniteSets, TLC

VARIABLES
    apiKey,       \* settings.GECKOBOARD_API_KEY: NoKey or a byte string
    decoKw,       \* keyword arguments the decorator object was called with
    kind,         \* the decorator class: "widget", "number", "rag", "text", ...
    request,      \* the HttpRequest: [META, POST, GET]
    handlerValue, \* the object view_func holds and returns when it is called
    pc,           \* position in the decorator / in _wrapped_view
    calls,        \* the functions _wrapped_view has called so far, in order
    view_result,  \* local of _wrapped_view: a reference to that object
    data,         \* local of _wrapped_view
    doc,          \* the Document _render_xml built (NoDoc when none was)
    response,     \* what _wrapped_view returned (NoResponse before that)
    raised,       \* the exception that left the code ("" when none did)
    original,     \* the object as it was when view_func first returned it
    served,       \* [data, content] of the earlier requests the view served
    peer          \* a second request in _wrapped_view at the same time:
                  \* [pc, data, response]; its view_result is the same object

vars == <<apiKey, decoKw, kind, request, handlerValue, pc, calls,
          view_result, data, doc, response, raised, original, served, peer>>

----------------------------------------------------------------------------
(* Bounds of the model *)

\* longest sequence inside a view result
MaxLen == 2
\* integer scalars are 0..MaxInt
MaxInt == 1
\* the widest span of the axis points of the small Bullet results
MaxSpan == 6
\* requests a view serves one after the other
MaxRequests == 3

----------------------------------------------------------------------------
(* Python values *)

PyInt(n) == [k |-> "int", v |-> n]
PyStr(s) == [k |-> "str", v |-> s]
None == [k |-> "none", v |-> 0]
PyList(s) == [k |-> "list", v |-> s]
PyDict(s) == [k |-> "dict", v |-> s]
PyBool(b) == [k |-> "bool", v |-> b]
PyFloat(h) == [k |-> "float", v |-> h]

\* isinstance(x, (tuple, list))
IsList(x) == x.k = "list"
\* isinstance(x, dict)
IsDict(x) == x.k = "dict"

\* sequences over S of length 0..n
SeqUpTo(S, n) == UNION {[1..m -> S] : m \in 0..n}

\* the concatenation of the strings of a sequence, with sep between them
RECURSIVE Join(_, _)
Join(ss, sep) ==
    IF ss = <<>> THEN ""
    ELSE IF Len(ss) = 1 THEN ss[1]
    ELSE ss[1] \o sep \o Join(Tail(ss), sep)

\* the concatenation of a sequence of sequences
RECURSIVE Flatten(_)
Flatten(ss) == IF ss = <<>> THEN <<>> ELSE ss[1] \o Flatten(Tail(ss))

\* repr(x) of a float: the shortest decimal, at least one fractional digit
float_repr(h) ==
    ToString(h \div 100) \o "."
        \o (IF h % 10 = 0 THEN ToString((h % 100) \div 10)
            ELSE ToString((h % 100) \div 10) \o ToString(h % 10))

\* str(x) of a scalar
str(x) ==
    CASE x.k = "int" -> ToString(x.v)
      [] x.k = "str" -> x.v
      [] x.k = "none" -> "None"
      [] x.k = "float" -> float_repr(x.v)
      [] x.k = "bool" -> IF x.v THEN "True" ELSE "False"

\* mapping operations: has_key, [], get, []=
has_key(d, key) == \E i \in 1..Len(d.v) : d.v[i][1] = key
getitem(d, key) == d.v[CHOOSE i \in 1..Len(d.v) : d.v[i][1] = key][2]
dict_get(d, key, default) == IF has_key(d, key) THEN getitem(d, key) ELSE default
setitem(d, key, value) ==
    IF has_key(d, key)
    THEN PyDict([i \in 1..Len(d.v) |->
                   IF d.v[i][1] = key THEN <<key, value>> ELSE d.v[i]])
    ELSE PyDict(Append(d.v, <<key, value>>))

\* the truth value of an object
truth(x) ==
    CASE x.k = "none" -> FALSE
      [] x.k = "bool" -> x.v
      [] x.k \in {"int", "float"} -> x.v # 0
      [] x.k = "str" -> x.v # ""
      [] x.k \in {"list", "dict"} -> x.v # <<>>

----------------------------------------------------------------------------
(* xml.dom.minidom: the nodes _render_xml creates and Document.toxml *)

createElement(tag, kids) == [k |-> "elem", tag |-> tag, kids |-> kids]
createTextNode(s) == [k |-> "text", tag |-> s, kids |-> <<>>]
NoDoc == [k |-> "nodoc", tag |-> "", kids |-> <<>>]

XmlDeclaration == "<?xml version=\"1.0\" ?>"

RECURSIVE writexml(_)
writexml(node) ==
    IF node.k = "text" THEN node.tag
    ELSE IF node.kids = <<>> THEN "<" \o node.tag \o "/>"
    ELSE "<" \o node.tag \o ">"
         \o Join([i \in 1..Len(node.kids) |-> writexml(node.kids[i])], "")
         \o "</" \o node.tag \o ">"

toxml(root) == XmlDeclaration \o writexml(root)

----------------------------------------------------------------------------
(* The tree serializer.  The _build_* operators return the child nodes     *)
(* the Python functions append to their parent, in order.                  *)

RECURSIVE _build_xml(_)

_build_str_xml(d) == << createTextNode(str(d)) >>

_build_list_xml(d) == Flatten([i \in 1..Len(d.v) |-> _build_xml(d.v[i])])

\* the children one mapping entry <<tag, item>> appends
\* (variant: one element around the whole sequence)
_build_entry_xml_wrap(tag, item) == << createElement(tag, _build_xml(item)) >>
_build_entry_xml(tag, item) ==
    IF IsList(item)
    THEN [j \in 1..Len(item.v) |-> createElement(tag, _build_xml(item.v[j]))]
    ELSE << createElement(tag, _build_xml(item)) >>

\* (variant: the entries taken last to first)
_build_dict_xml_reversed(d) ==
    Flatten([i \in 1..Len(d.v) |->
        _build_entry_xml(d.v[Len(d.v) + 1 - i][1], d.v[Len(d.v) + 1 - i][2])])
_build_dict_xml(d) ==
    Flatten([i \in 1..Len(d.v) |-> _build_entry_xml(d.v[i][1], d.v[i][2])])

_build_xml(d) ==
    IF IsList(d) THEN _build_list_xml(d)
    ELSE IF IsDict(d) THEN _build_dict_xml(d)
    ELSE _build_str_xml(d)

\* the Document _render_xml builds: the root element
_render_xml_doc(d) == createElement("root", _build_xml(d))

_render_xml(d) == toxml(_render_xml_doc(d))

\* simplejson.dumps with its default separators
RECURSIVE _render_json(_)
_render_json(d) ==
    CASE d.k = "int" -> ToString(d.v)
      [] d.k = "str" -> "\"" \o d.v \o "\""
      [] d.k = "none" -> "null"
      [] d.k = "float" -> float_repr(d.v)
      [] d.k = "bool" -> IF d.v THEN "true" ELSE "false"
      [] d.k = "list" ->
           "[" \o Join([i \in 1..Len(d.v) |-> _render_json(d.v[i])], ", ")
               \o "]"
      [] d.k = "dict" ->
           "{" \o Join([i \in 1..Len(d.v) |->
                          "\"" \o d.v[i][1] \o "\": "
                               \o _render_json(d.v[i][2])], ", ")
               \o "}"

----------------------------------------------------------------------------
(* QueryDict / META: a set of <<name, value>> pairs, one per name *)

DictGet(q, name, default) ==
    IF \E p \in q : p[1] = name
    THEN (CHOOSE p \in q : p[1] = name)[2]
    ELSE default

\* the format parameter _render reads
\* (variant: GET read before POST)
_render_format_get_first(req) ==
    LET format == DictGet(req.GET, "format", "")
    IN  IF format = "" THEN DictGet(req.POST, "format", "") ELSE format
\* (variant: only POST is read)
_render_format_post_only(req) == DictGet(req.POST, "format", "")
_render_format(req) ==
    LET format == DictGet(req.POST, "format", "")
    IN  IF format = "" THEN DictGet(req.GET, "format", "") ELSE format

_render_is_json(req) == _render_format(req) = "2"

_render(req, d) ==
    IF _render_is_json(req) THEN _render_json(d) ELSE _render_xml(d)

----------------------------------------------------------------------------
(* Byte strings of the API key check: sequences of character codes *)

\* "basic"
BasicLower == <<98, 97, 115, 105, 99>>
\* ':'
Colon == 58
\* '='
BASE64_PAD == 61
\* the characters str.split() treats as separators: \t \n \v \f \r space
Whitespace == {9, 10, 11, 12, 13, 32}

\* str.lower()
lower(s) == [i \in 1..Len(s) |-> IF s[i] \in 65..90 THEN s[i] + 32 ELSE s[i]]

\* str.split(): the maximal runs of characters that are not whitespace
RECURSIVE SplitFrom(_, _, _)
SplitFrom(s, i, word) ==
    IF i > Len(s) THEN (IF word = <<>> THEN <<>> ELSE <<word>>)
    ELSE IF s[i] \in Whitespace
         THEN (IF word = <<>> THEN <<>> ELSE <<word>>) \o SplitFrom(s, i + 1, <<>>)
         ELSE SplitFrom(s, i + 1, Append(word, s[i]))
split(s) == SplitFrom(s, 1, <<>>)

\* str.split(':')[0]: the text before the first ':'
RECURSIVE BeforeColon(_)
BeforeColon(s) ==
    IF s = <<>> \/ s[1] = Colon THEN <<>>
    ELSE <<s[1]>> \o BeforeColon(Tail(s))

\* value of a character of the base64 alphabet, -1 for any other character
table_a2b_base64(c) ==
    CASE c \in 65..90 -> c - 65
      [] c \in 97..122 -> c - 71
      [] c \in 48..57 -> c + 4
      [] c = 43 -> 62
      [] c = 47 -> 63
      [] c = BASE64_PAD -> 0
      [] OTHER -> -1

\* binascii_find_valid(s + i, len, 1): the first valid character after
\* position i, -1 if there is none
RECURSIVE NextValid(_, _)
NextValid(s, i) ==
    IF i + 1 > Len(s) THEN -1
    ELSE IF table_a2b_base64(s[i + 1]) # -1 THEN s[i + 1]
    ELSE NextValid(s, i + 1)

Pow2(n) == CASE n = 0 -> 1 [] n = 2 -> 4 [] n = 4 -> 16 [] n = 6 -> 64

\* binascii.a2b_base64 from position i on: [ok, bytes]; ok is FALSE when
\* bits are left over at the end ("Incorrect padding")
RECURSIVE a2b_base64(_, _, _, _, _, _)
a2b_base64(s, i, quad_pos, leftchar, leftbits, out) ==
    IF i > Len(s) THEN [ok |-> leftbits = 0, bytes |-> out]
    ELSE LET c == s[i] IN
         IF c = BASE64_PAD
         THEN IF quad_pos < 2 \/ (quad_pos = 2 /\ NextValid(s, i) # BASE64_PAD)
              THEN a2b_base64(s, i + 1, quad_pos, leftchar, leftbits, out)
              ELSE [ok |-> TRUE, bytes |-> out]
         ELSE IF table_a2b_base64(c) = -1
         THEN a2b_base64(s, i + 1, quad_pos, leftchar, leftbits, out)
         ELSE LET q == (quad_pos + 1) % 4
                  lc == leftchar * 64 + table_a2b_base64(c)
                  lb == leftbits + 6
              IN  IF lb >= 8
                  THEN a2b_base64(s, i + 1, q, lc % Pow2(lb - 8), lb - 8,
                                  Append(out, (lc \div Pow2(lb - 8)) % 256))
                  ELSE a2b_base64(s, i + 1, q, lc, lb, out)

\* base64.b64decode: [ok, bytes]; ok = FALSE is the TypeError it raises
b64decode(s) == a2b_base64(s, 1, 0, 0, 0, <<>>)

NoKey == <<-1>>
NoHeader == <<>>

\* request.META.get('HTTP_AUTHORIZATION', '').split()
AuthWords(req) == split(DictGet(req.META, "HTTP_AUTHORIZATION", NoHeader))

\* _is_api_key_correct: "True", "False", or "TypeError" when b64decode raises
\* (variant: the whole decoded text compared, password included)
_is_api_key_correct_whole(key, req) ==
    LET auth == AuthWords(req) IN
    IF key = NoKey THEN "True"
    ELSE IF Len(auth) = 2 /\ lower(auth[1]) = BasicLower
         THEN IF ~b64decode(auth[2]).ok THEN "TypeError"
              ELSE IF b64decode(auth[2]).bytes = key
                   THEN "True" ELSE "False"
         ELSE "False"
\* (variant: a header that is not two words with "basic" first passes)
_is_api_key_correct_open(key, req) ==
    LET auth == AuthWords(req) IN
    IF key = NoKey THEN "True"
    ELSE IF Len(auth) = 2 /\ lower(auth[1]) = BasicLower
         THEN IF ~b64decode(auth[2]).ok THEN "TypeError"
              ELSE IF BeforeColon(b64decode(auth[2]).bytes) = key
                   THEN "True" ELSE "False"
         ELSE "True"
_is_api_key_correct(key, req) ==
    LET auth == AuthWords(req) IN
    IF key = NoKey THEN "True"
    ELSE IF Len(auth) = 2 /\ lower(auth[1]) = BasicLower
         THEN IF ~b64decode(auth[2]).ok THEN "TypeError"
              ELSE IF BeforeColon(b64decode(auth[2]).bytes) = key
                   THEN "True" ELSE "False"
         ELSE "False"

----------------------------------------------------------------------------
(* The shape normalizers: _convert_view_result of each decorator class *)

WidgetDecorator_convert_view_result(result) == result

\* (variant: "if v" in place of "if v is not None")
NumberWidgetDecorator_convert_view_result_truthy(result) ==
    LET r == IF IsList(result) THEN result.v ELSE <<result>>
        Truthy(x) == x # None /\ x # PyInt(0) /\ x # PyStr("")
        kept == SelectSeq(r, Truthy)
    IN  PyDict(<< <<"item",
                    PyList([i \in 1..Len(kept) |->
                               PyDict(<< <<"value", kept[i]>> >>)])>> >>)
\* (variant: None filtered only from a result that is a sequence)
NumberWidgetDecorator_convert_view_result_nowiden(result) ==
    LET r == IF IsList(result) THEN SelectSeq(result.v, LAMBDA x : x # None)
             ELSE <<result>>
    IN  PyDict(<< <<"item",
                    PyList([i \in 1..Len(r) |->
                               PyDict(<< <<"value", r[i]>> >>)])>> >>)
NumberWidgetDecorator_convert_view_result(result) ==
    LET r == IF IsList(result) THEN result.v ELSE <<result>>
        kept == SelectSeq(r, LAMBDA x : x # None)
    IN  PyDict(<< <<"item",
                    PyList([i \in 1..Len(kept) |->
                               PyDict(<< <<"value", kept[i]>> >>)])>> >>)

\* (variant: an element whose value is None is left out, as for Number)
RAGWidgetDecorator_convert_view_result_dropnone(result) ==
    LET elem(e) == IF IsList(e) THEN e.v ELSE <<e>>
        item(e) ==
            PyDict(<< <<"value", elem(e)[1]>> >>
                   \o (IF Len(elem(e)) > 1 THEN << <<"text", elem(e)[2]>> >>
                       ELSE <<>>))
        kept == SelectSeq(result.v, LAMBDA e : elem(e)[1] # None)
    IN  PyDict(<< <<"item", PyList([i \in 1..Len(kept) |-> item(kept[i])])>> >>)
RAGWidgetDecorator_convert_view_result(result) ==
    LET elem(e) == IF IsList(e) THEN e.v ELSE <<e>>
        item(e) ==
            PyDict(<< <<"value", IF elem(e)[1] = None THEN PyStr("")
                                 ELSE elem(e)[1]>> >>
                   \o (IF Len(elem(e)) > 1 THEN << <<"text", elem(e)[2]>> >>
                       ELSE <<>>))
    IN  PyDict(<< <<"item", PyList([i \in 1..Len(result.v) |->
                                      item(result.v[i])])>> >>)

TEXT_NONE == 0
TEXT_INFO == 2
TEXT_WARN == 1

\* (variant: a type that is None is kept)
TextWidgetDecorator_convert_view_result_nonetype(result) ==
    LET r == IF IsList(result) THEN result.v ELSE <<result>>
        elem(e) == IF IsList(e) THEN e.v ELSE <<e>>
        item(e) ==
            PyDict(<< <<"text", elem(e)[1]>>,
                      <<"type", IF Len(elem(e)) > 1 THEN elem(e)[2]
                                ELSE PyInt(TEXT_NONE)>> >>)
    IN  PyDict(<< <<"item", PyList([i \in 1..Len(r) |-> item(r[i])])>> >>)
TextWidgetDecorator_convert_view_result(result) ==
    LET r == IF IsList(result) THEN result.v ELSE <<result>>
        elem(e) == IF IsList(e) THEN e.v ELSE <<e>>
        item(e) ==
            PyDict(<< <<"text", elem(e)[1]>>,
                      <<"type", IF Len(elem(e)) > 1 /\ elem(e)[2] # None
                                THEN elem(e)[2] ELSE PyInt(TEXT_NONE)>> >>)
    IN  PyDict(<< <<"item", PyList([i \in 1..Len(r) |-> item(r[i])])>> >>)

\* an axis of a Line chart: None is '', and what is no sequence is put in
\* a list
\* (variant: None is left out of the list)
LineChartWidgetDecorator_axis_empty(axis) ==
    IF axis = None THEN PyList(<<>>)
    ELSE IF IsList(axis) THEN axis ELSE PyList(<<axis>>)
LineChartWidgetDecorator_axis(axis) ==
    LET x == IF axis = None THEN PyStr("") ELSE axis
    IN  IF IsList(x) THEN x ELSE PyList(<<x>>)

LineChartWidgetDecorator_convert_view_result(result) ==
    PyDict(<< <<"item", PyList(result.v[1].v)>>,
              <<"settings", PyDict(
                  (IF Len(result.v) > 1
                   THEN << <<"axisx", LineChartWidgetDecorator_axis(result.v[2])>> >>
                   ELSE <<>>)
                  \o (IF Len(result.v) > 2
                      THEN << <<"axisy", LineChartWidgetDecorator_axis(result.v[3])>> >>
                      ELSE <<>>)
                  \o (IF Len(result.v) > 3
                      THEN << <<"colour", result.v[4]>> >> ELSE <<>>))>> >>)

\* min / max of a Geck-O-Meter result as a mapping: value, and text when
\* it came as (value, text)
GeckOMeterWidgetDecorator_bound(x) ==
    LET b == IF IsList(x) THEN x.v ELSE <<x>>
    IN  PyDict(<< <<"value", b[1]>> >>
               \o (IF Len(b) > 1 THEN << <<"text", b[2]>> >> ELSE <<>>))

\* (variant: data['min'] is created before data['max'])
GeckOMeterWidgetDecorator_convert_view_result_min_first(result) ==
    PyDict(<< <<"item", result.v[1]>>,
              <<"min", GeckOMeterWidgetDecorator_bound(result.v[2])>>,
              <<"max", GeckOMeterWidgetDecorator_bound(result.v[3])>> >>)
\* value, min, max = result; the keys in the order they are first assigned
GeckOMeterWidgetDecorator_convert_view_result(result) ==
    PyDict(<< <<"item", result.v[1]>>,
              <<"max", GeckOMeterWidgetDecorator_bound(result.v[3])>>,
              <<"min", GeckOMeterWidgetDecorator_bound(result.v[2])>> >>)

\* ord(c) of the characters the labels of the model are made of
ord(c) == CASE c = "a" -> 97 [] c = "b" -> 98

\* s < t for two str
RECURSIVE str_lt(_, _)
str_lt(s, t) ==
    IF t = "" THEN FALSE
    ELSE IF s = "" THEN TRUE
    ELSE IF Head(s) = Head(t) THEN str_lt(Tail(s), Tail(t))
    ELSE ord(Head(s)) < ord(Head(t))

\* x < y for two (int, str) tuples
tuple_lt(x, y) ==
    \/ x.v[1].v < y.v[1].v
    \/ x.v[1].v = y.v[1].v /\ str_lt(x.v[2].v, y.v[2].v)

\* list.sort(reverse=True): the elements, largest first
RECURSIVE list_sort_reverse(_)
list_sort_reverse(s) ==
    IF s = <<>> THEN <<>>
    ELSE LET rest == list_sort_reverse(Tail(s))
         IN  SelectSeq(rest, LAMBDA y : tuple_lt(Head(s), y))
             \o <<Head(s)>>
             \o SelectSeq(rest, LAMBDA y : ~tuple_lt(Head(s), y))

\* the list items refers to when the entries are built: sorted in place
\* when the result asks for it
FunnelWidgetDecorator_items(result) ==
    LET items == dict_get(result, "items", PyList(<<>>))
    IN  IF truth(dict_get(result, "sort", None))
        THEN PyList(list_sort_reverse(items.v)) ELSE items

\* dict(zip(("value", "label"), item)); the entries of a plain dict are
\* written here in the order of the keys given
FunnelWidgetDecorator_entry(item) ==
    PyDict(<< <<"value", item.v[1]>>, <<"label", item.v[2]>> >>)

\* (variant: sort() without reverse)
FunnelWidgetDecorator_convert_view_result_ascending(result) ==
    LET items == FunnelWidgetDecorator_items(result).v
        n == Len(items)
        asc == IF truth(dict_get(result, "sort", None))
               THEN [i \in 1..n |-> items[n + 1 - i]] ELSE items
    IN  PyDict(<< <<"item", PyList([i \in 1..n |->
                                      FunnelWidgetDecorator_entry(asc[i])])>>,
                  <<"type", dict_get(result, "type", PyStr("standard"))>>,
                  <<"percentage",
                    dict_get(result, "percentage", PyStr("show"))>> >>)
FunnelWidgetDecorator_convert_view_result(result) ==
    LET items == FunnelWidgetDecorator_items(result).v
    IN  PyDict(<< <<"item", PyList([i \in 1..Len(items) |->
                                      FunnelWidgetDecorator_entry(items[i])])>>,
                  <<"type", dict_get(result, "type", PyStr("standard"))>>,
                  <<"percentage",
                    dict_get(result, "percentage", PyStr("show"))>> >>)

\* what the call leaves in result: items.sort() sorts the list that
\* result['items'] is
FunnelWidgetDecorator_writes(result) ==
    IF has_key(result, "items")
    THEN setitem(result, "items", FunnelWidgetDecorator_items(result))
    ELSE result

\* Bullet.  The numbers of a result are int; a float is what scaler made.

\* the first required key the result does not have ("" when it has all)
BulletWidgetDecorator_missing_key(result) ==
    LET keys == <<"label", "axis_points", "current", "comparitive">>
        missing == {i \in 1..4 : ~has_key(result, keys[i])}
    IN  IF missing = {} THEN ""
        ELSE keys[CHOOSE i \in missing : \A j \in missing : i <= j]

\* current and projected as [start, end]: a singleton v is [0, v]
BulletWidgetDecorator_current(result) ==
    LET current == getitem(result, "current")
    IN  IF IsList(current) THEN current.v ELSE <<PyInt(0), current>>
BulletWidgetDecorator_projected(result) ==
    LET projected == dict_get(result, "projected", None)
    IN  IF projected # None /\ ~IsList(projected)
        THEN PyList(<<PyInt(0), projected>>) ELSE projected

\* max(axis_points), min(axis_points) of a sequence of int that is not empty
max_point(points) ==
    LET S == {points[i].v : i \in 1..Len(points)}
    IN  CHOOSE x \in S : \A y \in S : y <= x
min_point(points) ==
    LET S == {points[i].v : i \in 1..Len(points)}
    IN  CHOOSE x \in S : \A y \in S : x <= y

\* red, amber and green before scaling, each <<start, end>>
\* (variant: only the ranges the result does not have are calculated)
BulletWidgetDecorator_ranges_missing_only(result) ==
    LET axis_points == getitem(result, "axis_points").v
        third == (max_point(axis_points) - min_point(axis_points)) \div 3
        calc == IF axis_points # <<>>
                THEN [red |-> <<PyInt(min_point(axis_points)),
                                PyInt(min_point(axis_points) + third - 1)>>,
                      amber |-> <<PyInt(min_point(axis_points) + third),
                                  PyInt(max_point(axis_points) - third - 1)>>,
                      green |-> <<PyInt(max_point(axis_points) - third),
                                  PyInt(max_point(axis_points))>>]
                ELSE [red |-> <<PyInt(0), PyInt(0)>>,
                      amber |-> <<PyInt(0), PyInt(0)>>,
                      green |-> <<PyInt(0), PyInt(0)>>]
    IN  [red |-> IF dict_get(result, "red", None) = None THEN calc.red
                 ELSE getitem(result, "red").v,
         amber |-> IF dict_get(result, "amber", None) = None THEN calc.amber
                   ELSE getitem(result, "amber").v,
         green |-> IF dict_get(result, "green", None) = None THEN calc.green
                   ELSE getitem(result, "green").v]
\* (variant: red ends where amber starts)
BulletWidgetDecorator_ranges_overlapping(result) ==
    LET axis_points == getitem(result, "axis_points").v
        red == dict_get(result, "red", None)
        amber == dict_get(result, "amber", None)
        green == dict_get(result, "green", None)
        third == (max_point(axis_points) - min_point(axis_points)) \div 3
    IN  IF red = None \/ amber = None \/ green = None
        THEN IF axis_points # <<>>
             THEN [red |-> <<PyInt(min_point(axis_points)),
                             PyInt(min_point(axis_points) + third)>>,
                   amber |-> <<PyInt(min_point(axis_points) + third),
                               PyInt(max_point(axis_points) - third - 1)>>,
                   green |-> <<PyInt(max_point(axis_points) - third),
                               PyInt(max_point(axis_points))>>]
             ELSE [red |-> <<PyInt(0), PyInt(0)>>,
                   amber |-> <<PyInt(0), PyInt(0)>>,
                   green |-> <<PyInt(0), PyInt(0)>>]
        ELSE [red |-> red.v, amber |-> amber.v, green |-> green.v]
BulletWidgetDecorator_ranges(result) ==
    LET axis_points == getitem(result, "axis_points").v
        red == dict_get(result, "red", None)
        amber == dict_get(result, "amber", None)
        green == dict_get(result, "green", None)
        third == (max_point(axis_points) - min_point(axis_points)) \div 3
    IN  IF red = None \/ amber = None \/ green = None
        THEN IF axis_points # <<>>
             THEN [red |-> <<PyInt(min_point(axis_points)),
                             PyInt(min_point(axis_points) + third - 1)>>,
                   amber |-> <<PyInt(min_point(axis_points) + third),
                               PyInt(max_point(axis_points) - third - 1)>>,
                   green |-> <<PyInt(max_point(axis_points) - third),
                               PyInt(max_point(axis_points))>>]
             ELSE [red |-> <<PyInt(0), PyInt(0)>>,
                   amber |-> <<PyInt(0), PyInt(0)>>,
                   green |-> <<PyInt(0), PyInt(0)>>]
        ELSE [red |-> red.v, amber |-> amber.v, green |-> green.v]

\* scale_label_map
scale_label_map(n) ==
    CASE n = 1000000000 -> "billions"
      [] n = 1000000 -> "millions"
      [] n = 1000 -> "thousands"

\* the scale: the first n of (1000000000, 1000000, 1000) that
\* max(axis_points) reaches; 1 when there is none or nothing is scaled
BulletWidgetDecorator_scale(result) ==
    LET axis_points == getitem(result, "axis_points").v
        auto_scale == dict_get(result, "auto_scale", PyBool(TRUE))
    IN  IF truth(auto_scale) /\ axis_points # <<>>
        THEN IF max_point(axis_points) >= 1000000000 THEN 1000000000
             ELSE IF max_point(axis_points) >= 1000000 THEN 1000000
             ELSE IF max_point(axis_points) >= 1000 THEN 1000
             ELSE 1
        ELSE 1

\* float('%.2f' % (value*1.0 / scale)) for value >= 0 and a scale of
\* scale_label_map: the hundredth nearest to the quotient.  (A quotient
\* that is halfway between two hundredths goes where its binary double
\* lies; it is taken upwards here and no number of the model is halfway.)
\* (variant: the digits after the second are cut off)
scaler_cut(value, scale) ==
    IF value.k = "int" THEN PyFloat(value.v \div (scale \div 100))
    ELSE PyFloat(value.v \div scale)
scaler(value, scale) ==
    IF value.k = "int"
    THEN PyFloat((value.v \div (scale \div 100))
                 + (IF 2 * (value.v % (scale \div 100)) >= scale \div 100
                    THEN 1 ELSE 0))
    ELSE PyFloat((value.v \div scale)
                 + (IF 2 * (value.v % scale) >= scale THEN 1 ELSE 0))

\* str.upper() of the first characters of the scale labels
upper(c) == CASE c = "b" -> "B" [] c = "m" -> "M" [] c = "t" -> "T"
\* str.capitalize() of a lower-case word
capitalize(w) == upper(Head(w)) \o Tail(w)

\* the sublabel a scaled result gets
\* (variant: the scale label is always put after the sublabel)
BulletWidgetDecorator_sublabel_always(result) ==
    PyStr(str(dict_get(result, "sublabel", PyStr(""))) \o " ("
          \o scale_label_map(BulletWidgetDecorator_scale(result)) \o ")")
BulletWidgetDecorator_sublabel(result) ==
    LET sublabel == dict_get(result, "sublabel", PyStr(""))
        scale == BulletWidgetDecorator_scale(result)
    IN  IF truth(sublabel)
        THEN PyStr(str(sublabel) \o " (" \o scale_label_map(scale) \o ")")
        ELSE PyStr(capitalize(scale_label_map(scale)))

\* what the call leaves in result: a scaled result gets its comparitive
\* scaled and its sublabel set
BulletWidgetDecorator_writes(result) ==
    LET scale == BulletWidgetDecorator_scale(result)
    IN  IF scale > 1
        THEN setitem(setitem(result, "comparitive",
                             scaler(getitem(result, "comparitive"), scale)),
                     "sublabel", BulletWidgetDecorator_sublabel(result))
        ELSE result

\* the data of a result that has the required keys; the entries of the
\* plain dicts are written here in the order of the source
BulletWidgetDecorator_convert_view_result(result) ==
    LET scale == BulletWidgetDecorator_scale(result)
        sc(x) == IF scale > 1 THEN scaler(x, scale) ELSE x
        axis_points == getitem(result, "axis_points").v
        current == BulletWidgetDecorator_current(result)
        projected == BulletWidgetDecorator_projected(result)
        ranges == BulletWidgetDecorator_ranges(result)
        written == BulletWidgetDecorator_writes(result)
        range(r) == PyDict(<< <<"start", sc(r[1])>>, <<"end", sc(r[2])>> >>)
    IN  PyDict(<<
          <<"orientation", dict_get(written, "orientation", PyStr("horizontal"))>>,
          <<"item", PyDict(<<
              <<"label", getitem(written, "label")>>,
              <<"axis", PyDict(<< <<"point",
                    PyList([i \in 1..Len(axis_points) |->
                               sc(axis_points[i])])>> >>)>>,
              <<"range", PyDict(<< <<"red", range(ranges.red)>>,
                                   <<"amber", range(ranges.amber)>>,
                                   <<"green", range(ranges.green)>> >>)>>,
              <<"measure", PyDict(
                    << <<"current", range(current)>> >>
                    \o (IF projected # None
                        THEN << <<"projected", range(projected.v)>> >>
                        ELSE <<>>))>>,
              <<"comparitive", getitem(written, "comparitive")>> >>
              \o (IF has_key(written, "sublabel")
                  THEN << <<"sublabel", getitem(written, "sublabel")>> >>
                  ELSE <<>>))>> >>)

\* self._convert_view_result(view_result): dispatch on the decorator class.
\* The value it returns
_convert_view_result(cls, result) ==
    CASE cls = "widget" -> WidgetDecorator_convert_view_result(result)
      [] cls = "number" -> NumberWidgetDecorator_convert_view_result(result)
      [] cls = "rag" -> RAGWidgetDecorator_convert_view_result(result)
      [] cls = "text" -> TextWidgetDecorator_convert_view_result(result)
      [] cls = "line_chart" ->
           LineChartWidgetDecorator_convert_view_result(result)
      [] cls = "geck_o_meter" ->
           GeckOMeterWidgetDecorator_convert_view_result(result)
      [] cls = "funnel" -> FunnelWidgetDecorator_convert_view_result(result)
      [] cls = "bullet" -> BulletWidgetDecorator_convert_view_result(result)

\* the exception it leaves with ("" when it returns)
_convert_view_result_raises(cls, result) ==
    IF cls = "bullet" /\ BulletWidgetDecorator_missing_key(result) # ""
    THEN "RuntimeError" ELSE ""

\* the object result refers to when the call raises
\* (variant: the required keys are checked after the sublabel is set)
_convert_view_result_raised_writes_late(cls, result) ==
    IF has_key(result, "axis_points") /\ BulletWidgetDecorator_scale(result) > 1
    THEN setitem(result, "sublabel", BulletWidgetDecorator_sublabel(result))
    ELSE result
\* the required keys are checked first: nothing has been written
_convert_view_result_raised_writes(cls, result) == result

\* the object result refers to, as the call leaves it
_convert_view_result_writes(cls, result) ==
    CASE cls = "funnel" -> FunnelWidgetDecorator_writes(result)
      [] cls = "bullet" -> BulletWidgetDecorator_writes(result)
      [] OTHER -> result

----------------------------------------------------------------------------
(* django.http *)

\* settings.DEFAULT_CONTENT_TYPE with the charset: the Content-Type of an
\* HttpResponse that is created without one
DEFAULT_CONTENT_TYPE == "text/html; charset=utf-8"

NoResponse == [status |-> 0, content |-> "", content_type |-> ""]
HttpResponse(content) ==
    [status |-> 200, content |-> content, content_type |-> DEFAULT_CONTENT_TYPE]
HttpResponseForbidden(content) ==
    [status |-> 403, content |-> content, content_type |-> DEFAULT_CONTENT_TYPE]

----------------------------------------------------------------------------
(* The values the model draws its inputs from *)

\* "abc", "def"
KeyAbc == <<97, 98, 99>>
KeyDef == <<100, 101, 102>>
ApiKeys == {NoKey, KeyAbc, KeyDef}

\* Authorization headers
\* "basic YWJj"          (abc)
HdrAbc == <<98, 97, 115, 105, 99, 32, 89, 87, 74, 106>>
\* "Basic YWJjOnB3"      (abc:pw)
HdrAbcPw == <<66, 97, 115, 105, 99, 32, 89, 87, 74, 106, 79, 110, 66, 51>>
\* "basic ZGVm"          (def)
HdrDef == <<98, 97, 115, 105, 99, 32, 90, 71, 86, 109>>
\* "basic YWJ"           (not base64: bits left over)
HdrBadPadding == <<98, 97, 115, 105, 99, 32, 89, 87, 74>>
\* "bearer YWJj"
HdrBearer == <<98, 101, 97, 114, 101, 114, 32, 89, 87, 74, 106>>
\* "basic"
HdrOneWord == <<98, 97, 115, 105, 99>>
\* "basic YWJj x"
HdrThreeWords == <<98, 97, 115, 105, 99, 32, 89, 87, 74, 106, 32, 120>>
\* " BASIC\tYWJj "
HdrSpaced == <<32, 66, 65, 83, 73, 67, 9, 89, 87, 74, 106, 32>>
\* "basic YWI="          (ab)
HdrAb == <<98, 97, 115, 105, 99, 32, 89, 87, 73, 61>>
\* "basic OmFiYw=="      (:abc)
HdrColonAbc == <<98, 97, 115, 105, 99, 32, 79, 109, 70, 105, 89, 119, 61, 61>>
\* "basic YWJjZA=="      (abcd)
HdrAbcd == <<98, 97, 115, 105, 99, 32, 89, 87, 74, 106, 90, 65, 61, 61>>

Headers == {HdrAbc, HdrAbcPw, HdrDef, HdrBadPadding, HdrBearer, HdrOneWord,
            HdrThreeWords, HdrSpaced, HdrAb, HdrColonAbc, HdrAbcd}
Metas == {{}} \cup {{<<"HTTP_AUTHORIZATION", h>>} : h \in Headers}

FormatValues == {"", "1", "2", "json", "csv"}
QueryDicts == {{}} \cup {{<<"format", f>>} : f \in FormatValues}

\* keyword arguments of a call of the decorator object
DecoKws == {{}} \cup {{<<"format", f>>} : f \in {"json", "xml", "csv"}}

\* the decorator classes
CoreKinds == {"widget", "number"}
ShapeKinds ==
    {"rag", "text", "line_chart", "geck_o_meter", "funnel", "bullet"}
Kinds == CoreKinds \cup ShapeKinds

IntScalars == {PyInt(n) : n \in 0..MaxInt}
Scalars == {None, PyStr("test")} \cup IntScalars

ListElems == Scalars \cup {PyDict(<< <<"value", s>> >>) : s \in IntScalars}
Lists == {PyList(s) : s \in SeqUpTo(ListElems, MaxLen)}
DictValues == Scalars \cup Lists
\* at most one value that is a sequence in a mapping of two entries
Dicts ==
    {PyDict(<<>>)}
    \cup {PyDict(<< <<t, x>> >>) : t \in {"item", "value"}, x \in DictValues}
    \cup {PyDict(<< <<t[1], x>>, <<t[2], y>> >>) :
            t \in {<<"item", "value">>, <<"value", "item">>},
            x \in DictValues, y \in Scalars}
    \cup {PyDict(<< <<t[1], x>>, <<t[2], y>> >>) :
            t \in {<<"item", "value">>, <<"value", "item">>},
            x \in Scalars, y \in Lists}

NumberElems ==
    Scalars \cup {PyDict(<< <<"value", PyInt(1)>> >>),
                  PyDict(<< <<"value", PyInt(1)>>, <<"prefix", PyStr("$")>> >>)}
NumberLists == {PyList(s) : s \in SeqUpTo(NumberElems, MaxLen)}

\* RAG: three elements, each a value, (value,) or (value, text)
RagValues == {None} \cup IntScalars
RagElems ==
    RagValues \cup {PyList(<<x>>) : x \in RagValues}
              \cup {PyList(<<x, PyStr("test")>>) : x \in RagValues}
RagTriples == {PyList(t) : t \in [1..3 -> RagElems]}

\* Text: a string, or a sequence of messages; a message is a string,
\* (text,) or (text, type).  The code reads any sequence as a sequence of
\* messages, so the components of a pair are elements too
TextTypes == {None, PyInt(TEXT_NONE), PyInt(TEXT_WARN), PyInt(TEXT_INFO)}
TextPairs == {PyList(<<PyStr("test"), t>>) : t \in TextTypes}
TextElems ==
    {PyStr("test"), PyList(<<PyStr("test")>>)} \cup TextTypes \cup TextPairs
TextLists == {PyList(s) : s \in SeqUpTo(TextElems, MaxLen)}

\* Line chart: (values,), (values, x_axis), (values, x_axis, y_axis) or
\* (values, x_axis, y_axis, color); an axis is None, a label or a sequence
\* of labels
LineValues == {PyList(s) : s \in SeqUpTo(IntScalars, MaxLen)}
LineAxes ==
    {None, PyStr("test"), PyList(<<>>),
     PyList(<<PyStr("first"), PyStr("last")>>)}
LineResults ==
    {PyList(<<v>>) : v \in LineValues}
    \cup {PyList(<<v, x>>) : v \in LineValues, x \in LineAxes}
    \cup {PyList(<<v, x, y>>) : v \in LineValues, x \in LineAxes, y \in LineAxes}
    \cup {PyList(<<v, x, y, PyStr("00112233")>>) :
            v \in LineValues, x \in LineAxes, y \in LineAxes}

\* Geck-O-Meter: (value, min, max); min and max are a value, (value,) or
\* (value, text)
GaugeBounds ==
    IntScalars \cup {PyList(<<x>>) : x \in IntScalars}
               \cup {PyList(<<x, PyStr("test")>>) : x \in IntScalars}
GaugeResults ==
    {PyList(<<x, lo, hi>>) : x \in IntScalars, lo \in GaugeBounds,
                             hi \in GaugeBounds}

\* Funnel: a mapping with items (a list of (value, label)), sort, type and
\* percentage, each of them there or not
FunnelPairs ==
    {PyList(<<PyInt(50), PyStr("a")>>), PyList(<<PyInt(50), PyStr("ab")>>),
     PyList(<<PyInt(100), PyStr("a")>>), PyList(<<PyInt(100), PyStr("b")>>)}
FunnelItems == {PyList(s) : s \in SeqUpTo(FunnelPairs, MaxLen + 1)}
FunnelOptions ==
    {o \in SUBSET {<<"sort", PyBool(TRUE)>>, <<"sort", PyBool(FALSE)>>,
                   <<"type", PyStr("reverse")>>,
                   <<"percentage", PyStr("hide")>>} :
        <<"sort", PyBool(TRUE)>> \notin o \/ <<"sort", PyBool(FALSE)>> \notin o}
\* the entries of a set of options, in one order
RECURSIVE SeqOf(_)
SeqOf(S) ==
    IF S = {} THEN <<>>
    ELSE LET x == CHOOSE y \in S : TRUE IN <<x>> \o SeqOf(S \ {x})
FunnelResults ==
    {PyDict(<< <<"items", i>> >> \o SeqOf(o)) :
        i \in FunnelItems, o \in FunnelOptions}
    \cup {PyDict(SeqOf(o)) : o \in FunnelOptions}

\* Bullet: a mapping.  The values of the tests (label, axis_points 0..1000,
\* current 500, comparative 600) and around them: axis points below the
\* first scale and at the other scales, ranges, projected, sublabel,
\* orientation and auto_scale there or not
IntList(s) == PyList([i \in 1..Len(s) |-> PyInt(s[i])])
BulletAxisPoints ==
    {IntList(<<>>), IntList(<<0, 200, 400, 600, 800, 1000>>),
     IntList(<<999, 100>>), IntList(<<0, 3000000>>),
     IntList(<<0, 1000000000>>)}
BulletCurrents == {PyInt(500), IntList(<<100, 500>>)}
BulletProjected ==
    {<<>>, << <<"projected", PyInt(900)>> >>,
     << <<"projected", IntList(<<100, 900>>)>> >>}
BulletRanges ==
    {<<>>,
     << <<"red", IntList(<<0, 100>>)>> >>,
     << <<"amber", IntList(<<100, 200>>)>>, <<"green", IntList(<<200, 300>>)>> >>,
     << <<"red", IntList(<<0, 100>>)>>, <<"amber", IntList(<<100, 200>>)>>,
        <<"green", IntList(<<200, 300>>)>> >>}
BulletAutoScale ==
    {<<>>, << <<"auto_scale", PyBool(TRUE)>> >>,
     << <<"auto_scale", PyBool(FALSE)>> >>}
BulletSublabels ==
    {<<>>, << <<"sublabel", PyStr("")>> >>, << <<"sublabel", PyStr("sub")>> >>}
BulletOrientations == {<<>>, << <<"orientation", PyStr("vertical")>> >>}
\* the key of the comparative value: as the code spells it, as the tests do
BulletComparatives ==
    {<<>>, << <<"comparitive", PyInt(600)>> >>,
     << <<"comparative", PyInt(600)>> >>}
\* results with the required keys
BulletComplete ==
    {PyDict(<< <<"label", PyStr("test")>>, <<"axis_points", a>>,
               <<"current", c>>, <<"comparitive", PyInt(600)>> >>
            \o p \o g \o u \o l \o o) :
        a \in BulletAxisPoints, c \in BulletCurrents, p \in BulletProjected,
        g \in BulletRanges, u \in BulletAutoScale, l \in BulletSublabels,
        o \in BulletOrientations}
\* results that have some of them
BulletPartial ==
    {PyDict(SelectSeq(<< <<"label", PyStr("test")>>,
                         <<"axis_points", IntList(<<0, 200, 400, 600, 800, 1000>>)>>,
                         <<"current", PyInt(500)>> >>,
                      LAMBDA e : e[1] \in K)
            \o c \o u) :
        K \in SUBSET {"label", "axis_points", "current"},
        c \in BulletComparatives, u \in BulletAutoScale}
\* results whose axis points span 0 to MaxSpan, from 0 and from below 0
BulletSpans ==
    {PyDict(<< <<"label", PyStr("test")>>,
               <<"axis_points", IntList(<<lo, lo + span>>)>>,
               <<"current", PyInt(1)>>, <<"comparitive", PyInt(2)>> >>
            \o g \o u) :
        lo \in {0 - 7, 0}, span \in 0..MaxSpan,
        g \in {<<>>, << <<"red", IntList(<<0, 1>>)>> >>},
        u \in {<<>>, << <<"auto_scale", PyBool(FALSE)>> >>}}
BulletResults == BulletComplete \cup BulletPartial \cup BulletSpans

\* what a view of each decorator may return
ViewValues(cls) ==
    CASE cls = "widget" -> Scalars \cup Lists \cup Dicts
      [] cls = "number" -> NumberElems \cup NumberLists
      [] cls = "rag" -> RagTriples
      [] cls = "text" -> {PyStr("test")} \cup TextLists
      [] cls = "line_chart" -> LineResults
      [] cls = "geck_o_meter" -> GaugeResults
      [] cls = "funnel" -> FunnelResults
      [] cls = "bullet" -> BulletResults

\* a few of them, for the runs that vary the request instead
FewViewValues(cls) ==
    CASE cls = "widget" ->
           {PyStr("test"),
            PyDict(<< <<"item", PyInt(0)>>, <<"value", PyInt(1)>> >>)}
      [] cls = "number" ->
           {PyInt(1), PyList(<<None, PyInt(1)>>)}
      [] cls = "rag" ->
           {PyList(<<None, PyInt(1), PyList(<<PyInt(0), PyStr("test")>>)>>)}
      [] cls = "text" ->
           {PyStr("test"), PyList(<<PyList(<<PyStr("test"), PyInt(1)>>)>>)}
      [] cls = "line_chart" ->
           {PyList(<<PyList(<<PyInt(0), PyInt(1)>>), PyStr("test"), None>>)}
      [] cls = "geck_o_meter" ->
           {PyList(<<PyInt(1), PyInt(0), PyList(<<PyInt(1), PyStr("test")>>)>>)}
      [] cls = "funnel" ->
           {PyDict(<< <<"items", PyList(<<PyList(<<PyInt(50), PyStr("b")>>),
                                          PyList(<<PyInt(100), PyStr("a")>>)>>)>>,
                      <<"sort", PyBool(TRUE)>> >>)}
      [] cls = "bullet" ->
           {PyDict(<< <<"label", PyStr("test")>>,
                      <<"axis_points", IntList(<<0, 200, 400, 600, 800, 1000>>)>>,
                      <<"current", PyInt(500)>>, c[1]>>) :
               c \in BulletComparatives \ {<<>>}}

----------------------------------------------------------------------------
(* The state machine *)

NoRequest == [META |-> {}, POST |-> {}, GET |-> {}]
\* no second request
NoPeer == [pc |-> "none", data |-> None, response |-> NoResponse]

\* the module is imported: the settings are read, the decorator is about
\* to be applied to a view
Init ==
    /\ apiKey \in ApiKeys
    /\ decoKw \in DecoKws
    /\ kind \in Kinds
    /\ request = NoRequest
    /\ handlerValue = None
    /\ original = None
    /\ served = <<>>
    /\ peer = NoPeer
    /\ pc = "decorate"
    /\ calls = <<>>
    /\ view_result = None
    /\ data = None
    /\ doc = NoDoc
    /\ response = NoResponse
    /\ raised = ""

\* widget(view_func): __call__ returns the wrapped view
Decorate ==
    /\ pc = "decorate"
    /\ decoKw = {}
    /\ pc' = "idle"
    /\ UNCHANGED <<original, served, peer>>
    /\ UNCHANGED <<apiKey, decoKw, kind, request, handlerValue, calls,
                   view_result, data, doc, response, raised>>

\* widget(format=...): __call__(self, view_func) takes no keyword argument
DecorateWithKeywords ==
    /\ pc = "decorate"
    /\ decoKw # {}
    /\ pc' = "raised"
    /\ raised' = "TypeError"
    /\ UNCHANGED <<original, served, peer>>
    /\ UNCHANGED <<apiKey, decoKw, kind, request, handlerValue, calls,
                   view_result, data, doc, response>>

\* a request arrives at the wrapped view
Receive(values) ==
    /\ pc = "idle"
    /\ \E meta \in Metas, post \in QueryDicts, get \in QueryDicts,
          value \in values :
          /\ request' = [META |-> meta, POST |-> post, GET |-> get]
          /\ handlerValue' = value
          /\ original' = value
    /\ pc' = "check"
    /\ UNCHANGED <<served, peer>>
    /\ UNCHANGED <<apiKey, decoKw, kind, calls, view_result, data, doc,
                   response, raised>>

\* if not _is_api_key_correct(request): return HttpResponseForbidden(...)
CheckKeyCorrect ==
    /\ pc = "check"
    /\ _is_api_key_correct(apiKey, request) = "True"
    /\ calls' = Append(calls, "_is_api_key_correct")
    /\ pc' = "view"
    /\ UNCHANGED <<original, served, peer>>
    /\ UNCHANGED <<apiKey, decoKw, kind, request, handlerValue, view_result,
                   data, doc, response, raised>>

CheckKeyIncorrect ==
    /\ pc = "check"
    /\ _is_api_key_correct(apiKey, request) = "False"
    /\ calls' = Append(calls, "_is_api_key_correct")
    /\ response' = HttpResponseForbidden("Geckoboard API key incorrect")
    /\ pc' = "done"
    /\ UNCHANGED <<original, served, peer>>
    /\ UNCHANGED <<apiKey, decoKw, kind, request, handlerValue, view_result,
                   data, doc, raised>>

\* base64.b64decode raises inside _is_api_key_correct
CheckKeyRaises ==
    /\ pc = "check"
    /\ _is_api_key_correct(apiKey, request) = "TypeError"
    /\ calls' = Append(calls, "_is_api_key_correct")
    /\ raised' = "TypeError"
    /\ pc' = "raised"
    /\ UNCHANGED <<original, served, peer>>
    /\ UNCHANGED <<apiKey, decoKw, kind, request, handlerValue, view_result,
                   data, doc, response>>

\* view_result = view_func(request, *args, **kwargs)
CallView ==
    /\ pc = "view"
    /\ view_result' = handlerValue
    /\ calls' = Append(calls, "view_func")
    /\ pc' = "convert"
    /\ UNCHANGED <<original, served, peer>>
    /\ UNCHANGED <<apiKey, decoKw, kind, request, handlerValue, data, doc,
                   response, raised>>

\* data = self._convert_view_result(view_result).  view_result is the
\* object the view holds (the tests' views return self.funnel_data,
\* self.bullet_data_minimal): what the call writes to it, it writes to that
\* object
Convert ==
    /\ pc = "convert"
    /\ _convert_view_result_raises(kind, view_result) = ""
    /\ data' = _convert_view_result(kind, view_result)
    /\ view_result' = _convert_view_result_writes(kind, view_result)
    /\ handlerValue' = view_result'
    /\ calls' = Append(calls, "_convert_view_result")
    /\ pc' = "render"
    /\ UNCHANGED <<original, served, peer>>
    /\ UNCHANGED <<apiKey, decoKw, kind, request, doc, response, raised>>

\* self._convert_view_result(view_result) raises: nothing catches it
ConvertRaises ==
    /\ pc = "convert"
    /\ _convert_view_result_raises(kind, view_result) # ""
    /\ raised' = _convert_view_result_raises(kind, view_result)
    /\ view_result' = _convert_view_result_raised_writes(kind, view_result)
    /\ handlerValue' = view_result'
    /\ calls' = Append(calls, "_convert_view_result")
    /\ pc' = "raised"
    /\ UNCHANGED <<original, served, peer>>
    /\ UNCHANGED <<apiKey, decoKw, kind, request, data, doc, response>>

\* content = _render(request, data); return HttpResponse(content)
Render ==
    /\ pc = "render"
    /\ doc' = IF _render_is_json(request) THEN NoDoc ELSE _render_xml_doc(data)
    /\ response' = HttpResponse(_render(request, data))
    /\ calls' = Append(calls, "_render")
    /\ pc' = "done"
    /\ UNCHANGED <<original, served, peer>>
    /\ UNCHANGED <<apiKey, decoKw, kind, request, handlerValue, view_result,
                   data, raised>>

\* the decorator and the whole request: every header, key and format, a few
\* view results
Next ==
    \/ Decorate
    \/ DecorateWithKeywords
    \/ Receive(FewViewValues(kind))
    \/ CheckKeyCorrect
    \/ CheckKeyIncorrect
    \/ CheckKeyRaises
    \/ CallView
    \/ Convert
    \/ ConvertRaises
    \/ Render

Spec == Init /\ [][Next]_vars

\* an authorized request with the format in its POST parameters, just
\* before the view is called
CoreRequests ==
    {[META |-> {}, POST |-> {<<"format", f>>}, GET |-> {}] : f \in {"1", "2"}}

InitCore ==
    /\ apiKey = NoKey
    /\ decoKw = {}
    /\ kind \in CoreKinds
    /\ request \in CoreRequests
    /\ handlerValue \in ViewValues(kind)
    /\ original = handlerValue
    /\ served = <<>>
    /\ peer = NoPeer
    /\ pc = "view"
    /\ calls = <<"_is_api_key_correct">>
    /\ view_result = None
    /\ data = None
    /\ doc = NoDoc
    /\ response = NoResponse
    /\ raised = ""

\* the normalizers and the serializer: every view result
NextCore == CallView \/ Convert \/ Render

SpecCore == InitCore /\ [][NextCore]_vars

\* the same request for the decorators of the other widgets
InitShape ==
    /\ apiKey = NoKey
    /\ decoKw = {}
    /\ kind \in ShapeKinds
    /\ request \in CoreRequests
    /\ handlerValue \in ViewValues(kind)
    /\ original = handlerValue
    /\ served = <<>>
    /\ peer = NoPeer
    /\ pc = "view"
    /\ calls = <<"_is_api_key_correct">>
    /\ view_result = None
    /\ data = None
    /\ doc = NoDoc
    /\ response = NoResponse
    /\ raised = ""

NextShape == CallView \/ Convert \/ ConvertRaises \/ Render

SpecShape == InitShape /\ [][NextShape]_vars

\* the view is called again for the next request and returns the object
\* it returned before
Again ==
    /\ pc = "done"
    /\ Len(served) < MaxRequests - 1
    /\ served' = Append(served, [data |-> data, content |-> response.content])
    /\ pc' = "view"
    /\ calls' = <<"_is_api_key_correct">>
    /\ view_result' = None
    /\ data' = None
    /\ doc' = NoDoc
    /\ response' = NoResponse
    /\ UNCHANGED <<apiKey, decoKw, kind, request, handlerValue, raised,
                   original, peer>>

\* the results a repeated or a concurrent conversion is looked at for:
\* those of the decorators that write to the result, with the required keys
SharedValues(cls) ==
    {value \in ViewValues(cls) : _convert_view_result_raises(cls, value) = ""}

\* requests to a bullet view, one after the other
InitRepeat ==
    /\ apiKey = NoKey
    /\ decoKw = {}
    /\ kind = "bullet"
    /\ request \in CoreRequests
    /\ handlerValue \in SharedValues(kind)
    /\ original = handlerValue
    /\ served = <<>>
    /\ peer = NoPeer
    /\ pc = "view"
    /\ calls = <<"_is_api_key_correct">>
    /\ view_result = None
    /\ data = None
    /\ doc = NoDoc
    /\ response = NoResponse
    /\ raised = ""

NextRepeat == CallView \/ Convert \/ Render \/ Again

SpecRepeat == InitRepeat /\ [][NextRepeat]_vars

\* The second request.  Its steps are those of _wrapped_view again, on the
\* object both calls of view_func returned; a conversion is one step (the
\* interleavings inside it are left out).
PeerCallView ==
    /\ peer.pc = "view"
    /\ peer' = [peer EXCEPT !.pc = "convert"]
    /\ UNCHANGED <<apiKey, decoKw, kind, request, handlerValue, pc, calls,
                   view_result, data, doc, response, raised, original, served>>

\* view_result of the first request refers to the object once view_func
\* has returned it
PeerConvert ==
    /\ peer.pc = "convert"
    /\ peer' = [peer EXCEPT !.pc = "render",
                            !.data = _convert_view_result(kind, handlerValue)]
    /\ handlerValue' = _convert_view_result_writes(kind, handlerValue)
    /\ view_result' = IF pc \in {"convert", "render", "done"}
                      THEN handlerValue' ELSE view_result
    /\ UNCHANGED <<apiKey, decoKw, kind, request, pc, calls, data, doc,
                   response, raised, original, served>>

PeerRender ==
    /\ peer.pc = "render"
    /\ peer' = [peer EXCEPT !.pc = "done",
                            !.response = HttpResponse(_render(request, peer.data))]
    /\ UNCHANGED <<apiKey, decoKw, kind, request, handlerValue, pc, calls,
                   view_result, data, doc, response, raised, original, served>>

\* two requests to a funnel or bullet view, both about to call view_func
InitTwo ==
    /\ apiKey = NoKey
    /\ decoKw = {}
    /\ kind \in {"funnel", "bullet"}
    /\ request \in CoreRequests
    /\ handlerValue \in SharedValues(kind)
    /\ original = handlerValue
    /\ served = <<>>
    /\ peer = [NoPeer EXCEPT !.pc = "view"]
    /\ pc = "view"
    /\ calls = <<"_is_api_key_correct">>
    /\ view_result = None
    /\ data = None
    /\ doc = NoDoc
    /\ response = NoResponse
    /\ raised = ""

NextTwo ==
    \/ CallView
    \/ Convert
    \/ Render
    \/ PeerCallView
    \/ PeerConvert
    \/ PeerRender

SpecTwo == InitTwo /\ [][NextTwo]_vars

----------------------------------------------------------------------------
(* Properties of the tree serializer (SpecCore) *)

IsScalar(x) == x.k \in {"int", "str", "none"}

\* the request got its response from _render
Rendered == pc = "done" /\ response.status = 200
RenderedXml == Rendered /\ doc # NoDoc
RenderedJson == Rendered /\ doc = NoDoc

\* number of elements a mapping entry stands for
EntryLen(e) == IF IsList(e[2]) THEN Len(e[2].v) ELSE 1

\* number of children of the root that come before those of entry i
RECURSIVE Offset(_, _)
Offset(entries, i) ==
    IF i = 1 THEN 0
    ELSE Offset(entries, i - 1) + EntryLen(entries[i - 1])

\* {item: [{value: 0}, {value: 1}]}
TwoItems ==
    PyDict(<< <<"item", PyList(<<PyDict(<< <<"value", PyInt(0)>> >>),
                                 PyDict(<< <<"value", PyInt(1)>> >>)>>)>> >>)
\* {item: [0, 1]}
TwoScalars == PyDict(<< <<"item", PyList(<<PyInt(0), PyInt(1)>>)>> >>)

\* C1: in the XML of a mapping, a key whose value is a sequence gives one
\* element with the key's tag per element of the sequence, siblings in the
\* order of the sequence, each holding what one element serializes to, and
\* never one element around the whole sequence.
C1_RepeatedTag ==
    (RenderedXml /\ IsDict(data)) =>
        LET e == data.v
            kids == doc.kids
        IN  /\ doc.k = "elem" /\ doc.tag = "root"
            /\ Len(kids) = Offset(e, Len(e) + 1)
            /\ \A i \in 1..Len(e) :
                  IsList(e[i][2]) =>
                      \A j \in 1..Len(e[i][2].v) :
                          LET c == kids[Offset(e, i) + j]
                          IN  /\ c.k = "elem"
                              /\ c.tag = e[i][1]
                              /\ c.kids = _build_xml(e[i][2].v[j])
            /\ data = TwoItems =>
                  response.content =
                      "<?xml version=\"1.0\" ?><root><item><value>0</value></item>"
                      \o "<item><value>1</value></item></root>"
            /\ data = TwoScalars =>
                  response.content =
                      "<?xml version=\"1.0\" ?><root><item>0</item>"
                      \o "<item>1</item></root>"

C1_Witness == RenderedXml /\ data = TwoItems /\ Len(doc.kids) = 2

\* a mapping whose values are all scalars
IsFlatDict(d) == IsDict(d) /\ \A i \in 1..Len(d.v) : IsScalar(d.v[i][2])

\* the text of a scalar in XML and in JSON
ScalarText(x) ==
    CASE x.k = "int" -> ToString(x.v)
      [] x.k = "str" -> x.v
      [] x.k = "none" -> "None"
ScalarJson(x) ==
    CASE x.k = "int" -> ToString(x.v)
      [] x.k = "str" -> "\"" \o x.v \o "\""
      [] x.k = "none" -> "null"

RECURSIVE FlatXml(_)
FlatXml(e) ==
    IF e = <<>> THEN ""
    ELSE "<" \o e[1][1] \o ">" \o ScalarText(e[1][2]) \o "</" \o e[1][1] \o ">"
         \o FlatXml(Tail(e))

RECURSIVE FlatJson(_)
FlatJson(e) ==
    IF e = <<>> THEN ""
    ELSE "\"" \o e[1][1] \o "\": " \o ScalarJson(e[1][2])
         \o (IF Len(e) > 1 THEN ", " ELSE "") \o FlatJson(Tail(e))

\* {item: 0, value: 1} and {value: 1, item: 0}
ItemThenValue == PyDict(<< <<"item", PyInt(0)>>, <<"value", PyInt(1)>> >>)
ValueThenItem == PyDict(<< <<"value", PyInt(1)>>, <<"item", PyInt(0)>> >>)

\* C2: an ordered mapping with scalar values renders with its keys in
\* insertion order in both formats: in XML the declaration and one root
\* element with one child per key holding the value's string form, in JSON
\* an object with the same keys and values; a bare scalar renders as
\* <root>scalar</root> and as the JSON scalar.
C2_KeyOrder ==
    /\ (RenderedXml /\ IsFlatDict(data)) =>
          /\ doc = createElement("root",
                     [i \in 1..Len(data.v) |->
                        createElement(data.v[i][1],
                            <<createTextNode(ScalarText(data.v[i][2]))>>)])
          /\ data.v # <<>> =>
                response.content =
                    "<?xml version=\"1.0\" ?><root>" \o FlatXml(data.v) \o "</root>"
    /\ (RenderedJson /\ IsFlatDict(data)) =>
          response.content = "{" \o FlatJson(data.v) \o "}"
    /\ (RenderedXml /\ IsScalar(data)) =>
          response.content =
              "<?xml version=\"1.0\" ?><root>" \o ScalarText(data) \o "</root>"
    /\ (RenderedJson /\ IsScalar(data)) =>
          response.content = ScalarJson(data)
    /\ (RenderedXml /\ data = ItemThenValue) =>
          response.content =
              "<?xml version=\"1.0\" ?><root><item>0</item><value>1</value></root>"
    /\ (RenderedXml /\ data = ValueThenItem) =>
          response.content =
              "<?xml version=\"1.0\" ?><root><value>1</value><item>0</item></root>"
    /\ (RenderedJson /\ data = ValueThenItem) =>
          response.content = "{\"value\": 1, \"item\": 0}"
    /\ (RenderedXml /\ data = PyStr("test")) =>
          response.content = "<?xml version=\"1.0\" ?><root>test</root>"
    /\ (RenderedJson /\ data = PyStr("test")) =>
          response.content = "\"test\""

C2_Witness ==
    /\ RenderedXml
    /\ data = ValueThenItem
    /\ response.content =
           "<?xml version=\"1.0\" ?><root><value>1</value><item>0</item></root>"

----------------------------------------------------------------------------
(* Properties of the request handling (Spec) *)

\* the format parameters as the request carries them ("" when absent)
PostFormat == IF <<"format", "2">> \in request.POST THEN "2"
              ELSE IF request.POST \in {{}, {<<"format", "">>}} THEN ""
              ELSE "other"
GetFormat == IF <<"format", "2">> \in request.GET THEN "2" ELSE "other"

\* the selector of the request is "2": in POST, or in GET with none in POST
SelectorIsTwo == PostFormat = "2" \/ (PostFormat = "" /\ GetFormat = "2")

\* C3: a request whose format selector (the POST parameter, the GET
\* parameter when POST has none) is "2" gets a JSON body; with any other
\* selector ("1", empty, absent, unrecognized) it gets an XML body, and
\* never an error.
C3_FormatSelector ==
    /\ Rendered =>
          /\ SelectorIsTwo =>
                doc = NoDoc /\ response.content = _render_json(data)
          /\ ~SelectorIsTwo =>
                /\ doc # NoDoc
                /\ response.content = XmlDeclaration \o writexml(doc)
          /\ raised = ""
    /\ pc = "raised" => "_render" \notin {calls[i] : i \in 1..Len(calls)}

C3_Witness ==
    /\ Rendered
    /\ request.POST = {}
    /\ request.GET = {<<"format", "csv">>}
    /\ response.content = "<?xml version=\"1.0\" ?><root>test</root>"

\* C4: a decorator called with format="json" gives a JSON body to a request
\* without format parameter, with format="xml" or an unrecognized value an
\* XML body.
C4_TextualFormat ==
    decoKw # {} =>
        /\ raised = ""
        /\ (Rendered /\ request.POST = {} /\ request.GET = {}) =>
              IF decoKw = {<<"format", "json">>}
              THEN response.content = _render_json(data)
              ELSE response.content = _render_xml(data)

\* C5: the Content-Type of a rendered response names the format of its
\* body: application/json for JSON, application/xml for XML.
C5_ContentType ==
    Rendered =>
        response.content_type =
            (IF doc = NoDoc THEN "application/json" ELSE "application/xml")

\* what each Authorization header carries: whether it is two words, whether
\* the first is "basic" in any case, and the user part of the decoded second
\* word (NoKey when there is none or it cannot be decoded)
Credentials(meta) ==
    LET h == DictGet(meta, "HTTP_AUTHORIZATION", NoHeader) IN
    CASE h = HdrAbc -> [two |-> TRUE, basic |-> TRUE, user |-> KeyAbc]
      [] h = HdrAbcPw -> [two |-> TRUE, basic |-> TRUE, user |-> KeyAbc]
      [] h = HdrDef -> [two |-> TRUE, basic |-> TRUE, user |-> KeyDef]
      [] h = HdrBadPadding -> [two |-> TRUE, basic |-> TRUE, user |-> NoKey]
      [] h = HdrBearer -> [two |-> TRUE, basic |-> FALSE, user |-> KeyAbc]
      [] h = HdrOneWord -> [two |-> FALSE, basic |-> TRUE, user |-> NoKey]
      [] h = HdrThreeWords -> [two |-> FALSE, basic |-> TRUE, user |-> KeyAbc]
      [] h = HdrSpaced -> [two |-> TRUE, basic |-> TRUE, user |-> KeyAbc]
      [] h = HdrAb -> [two |-> TRUE, basic |-> TRUE, user |-> <<97, 98>>]
      [] h = HdrColonAbc -> [two |-> TRUE, basic |-> TRUE, user |-> <<>>]
      [] h = HdrAbcd -> [two |-> TRUE, basic |-> TRUE,
                         user |-> <<97, 98, 99, 100>>]
      [] h = NoHeader -> [two |-> FALSE, basic |-> FALSE, user |-> NoKey]

\* the request carries the configured key
CarriesKey ==
    LET c == Credentials(request.META)
    IN  c.two /\ c.basic /\ c.user = apiKey

\* the header is missing or carries another key
MissingOrOtherKey ==
    LET c == Credentials(request.META)
    IN  \/ request.META = {}
        \/ c.two /\ c.basic /\ c.user # NoKey /\ c.user # apiKey

\* the header is "basic" and a second word that is not base64
Undecodable ==
    LET c == Credentials(request.META)
    IN  c.two /\ c.basic /\ c.user = NoKey

CallOrder == <<"_is_api_key_correct", "view_func", "_convert_view_result",
               "_render">>
Called(f) == \E i \in 1..Len(calls) : calls[i] = f
Checked == Called("_is_api_key_correct")

LetThrough ==
    \/ pc \in {"view", "convert", "render"}
    \/ Rendered
    \/ pc = "raised" /\ Len(calls) > 1

\* C7: without configured key every request is authorized; with a key, a
\* request is authorized exactly when its Authorization header is two
\* words, the first "basic" in any case, and the base64-decoded second word
\* up to its first ':' is the key.
C7_AuthorizationDecision ==
    Checked =>
        /\ apiKey = NoKey => LetThrough
        /\ apiKey # NoKey => (LetThrough <=> CarriesKey)

C7_Witness ==
    /\ apiKey = KeyAbc
    /\ DictGet(request.META, "HTTP_AUTHORIZATION", NoHeader) = HdrAbcPw
    /\ Rendered

----------------------------------------------------------------------------
(* Properties of the Number normalizer (SpecCore) *)

\* the conversion of the Number decorator has run
NumberConverted == kind = "number" /\ pc \in {"render", "done"}

\* the item sequence of the converted data
Items == data.v[1][2].v

\* number of elements of s[1..i] that are not None
RECURSIVE Rank(_, _)
Rank(s, i) ==
    IF i = 0 THEN 0
    ELSE Rank(s, i - 1) + (IF s[i] = None THEN 0 ELSE 1)

\* C8: the item sequence of the Number normalizer has one entry per element
\* of the input sequence that is not None, in input order, and none for a
\* None element.
C8_NumberDropsNone ==
    (NumberConverted /\ IsList(view_result)) =>
        LET in == view_result.v IN
        /\ IsDict(data) /\ Len(data.v) = 1 /\ data.v[1][1] = "item"
        /\ IsList(data.v[1][2])
        /\ Len(Items) = Cardinality({i \in 1..Len(in) : in[i] # None})
        /\ \A i \in 1..Len(in) :
              (in[i] # None /\ IsScalar(in[i])) =>
                  Items[Rank(in, i)] = PyDict(<< <<"value", in[i]>> >>)

C8_Witness ==
    /\ NumberConverted
    /\ view_result = PyList(<<None, PyInt(0)>>)
    /\ Items = << PyDict(<< <<"value", PyInt(0)>> >>) >>

\* C9: for a scalar v, None included, the Number normalizer gives for v what
\* it gives for the one-element sequence [v].
C9_NumberSingleton ==
    (NumberConverted /\ IsScalar(view_result)) =>
        /\ data = NumberWidgetDecorator_convert_view_result(
                      PyList(<<view_result>>))
        /\ view_result = None => data = PyDict(<< <<"item", PyList(<<>>)>> >>)
        /\ view_result # None =>
              Items = << PyDict(<< <<"value", view_result>> >>) >>

C9_Witness ==
    /\ NumberConverted
    /\ view_result = None
    /\ data = PyDict(<< <<"item", PyList(<<>>)>> >>)

\* C10: an element of the Number input that is a mapping with a value field
\* becomes the output item itself, its fields at the item level, and is not
\* nested under a value key.
C10_NumberMappingPassThrough ==
    (NumberConverted /\ IsList(view_result)) =>
        \A i \in 1..Len(view_result.v) :
            IsDict(view_result.v[i]) =>
                Items[Rank(view_result.v, i)] = view_result.v[i]

----------------------------------------------------------------------------
(* Properties of the other normalizers (SpecShape) *)

\* the conversion has returned
Converted(cls) == kind = cls /\ pc \in {"render", "done"}

\* the sequence of a view result / the element as the sequence it is read as
Elems == view_result.v
AsSeq(e) == IF IsList(e) THEN e.v ELSE <<e>>

\* C11: a RAG triple gives exactly three items, in the order of the input;
\* an element whose value is None gives an item with value "" (it is not
\* dropped); an item has a text exactly when its element had one (a second
\* component), and then that text.
C11_RagThreeItems ==
    Converted("rag") =>
        /\ Len(data.v) = 1 /\ data.v[1][1] = "item"
        /\ Len(Items) = 3
        /\ \A i \in 1..3 :
              LET e == AsSeq(Elems[i]) IN
              /\ Items[i].v[1] =
                    <<"value", IF e[1] = None THEN PyStr("") ELSE e[1]>>
              /\ has_key(Items[i], "text") <=> Len(e) = 2
              /\ Len(e) = 2 => Items[i].v = <<Items[i].v[1], <<"text", e[2]>> >>
              /\ Len(e) = 1 => Len(Items[i].v) = 1
C11_Witness ==
    /\ Converted("rag")
    /\ view_result = PyList(<<None, PyList(<<None, PyStr("test")>>), PyInt(1)>>)
    /\ Items = <<PyDict(<< <<"value", PyStr("")>> >>),
                 PyDict(<< <<"value", PyStr("")>>, <<"text", PyStr("test")>> >>),
                 PyDict(<< <<"value", PyInt(1)>> >>)>>

\* a message of a Text view: a string or a (text, type) pair
IsTextMessage(x) == x = PyStr("test") \/ x \in TextPairs
\* the item of one message: its text, and its type when it has one that is
\* not None, 0 otherwise
TextItem(x) ==
    LET e == AsSeq(x) IN
    PyDict(<< <<"text", e[1]>>,
              <<"type", IF Len(e) = 2 /\ e[2] # None THEN e[2] ELSE PyInt(0)>> >>)

\* C12 as stated: every item has text and type, the type being the one
\* supplied unless absent or None (then 0); a message that is not in a list,
\* a string or a (text, type) pair, gives what the list holding only it gives.
C12_BareMessage ==
    Converted("text") =>
        /\ IsTextMessage(view_result) => Items = <<TextItem(view_result)>>
        /\ ~IsTextMessage(view_result) =>
              Items = [i \in 1..Len(Elems) |-> TextItem(Elems[i])]
\* C12: for a list of messages every item has text and type, the type being
\* the one supplied unless absent or None (then 0); a string that is not in
\* a list gives what the list holding only it gives; a sequence is always
\* read as a list of messages, a (text, type) pair too.
C12_TextTypeDefault ==
    Converted("text") =>
        /\ Len(data.v) = 1 /\ data.v[1][1] = "item"
        /\ IsList(view_result) =>
              Items = [i \in 1..Len(Elems) |-> TextItem(Elems[i])]
        /\ ~IsList(view_result) => Items = <<TextItem(view_result)>>
C12_Witness ==
    /\ Converted("text")
    /\ view_result = PyList(<<PyList(<<PyStr("test"), None>>),
                              PyList(<<PyStr("test"), PyInt(2)>>)>>)
    /\ Items = <<PyDict(<< <<"text", PyStr("test")>>, <<"type", PyInt(0)>> >>),
                 PyDict(<< <<"text", PyStr("test")>>, <<"type", PyInt(2)>> >>)>>

\* the step that converts the result of a view of class cls
Converts(cls) == kind = cls /\ pc = "convert" /\ pc' = "render"

\* the rank of a label among the labels of the model, by the codes of their
\* characters: "a" < "ab" < "b"
LabelRank(l) == CASE l = "a" -> 1 [] l = "ab" -> 2 [] l = "b" -> 3
\* (value, label) of x is at least (value, label) of y
PairGE(x, y) ==
    \/ x.v[1].v > y.v[1].v
    \/ x.v[1].v = y.v[1].v /\ LabelRank(x.v[2].v) >= LabelRank(y.v[2].v)
FunnelEntry(x) == PyDict(<< <<"value", x.v[1]>>, <<"label", x.v[2]>> >>)

\* C13: the Funnel output has item, type and percentage; item is the input
\* items as {value, label} entries: in the order of the input when sort is
\* absent or false, and, when sort is true, a rearrangement of all of them
\* in descending (value, label) order; type and percentage are those of the
\* input, "standard" and "show" when absent.
C13_FunnelOrder ==
    [][Converts("funnel") =>
        LET in == dict_get(view_result, "items", PyList(<<>>)).v
            n == Len(in)
            out == data'.v[1][2].v
            sort == dict_get(view_result, "sort", PyBool(FALSE)).v
        IN  /\ [i \in 1..3 |-> data'.v[i][1]] = <<"item", "type", "percentage">>
            /\ Len(data'.v) = 3
            /\ ~sort => out = [i \in 1..n |-> FunnelEntry(in[i])]
            /\ sort =>
                  /\ \E f \in Permutations(1..n) :
                        out = [i \in 1..n |-> FunnelEntry(in[f[i]])]
                  /\ \A i \in 1..n : \A j \in i..n :
                        PairGE(PyList(<<out[i].v[1][2], out[i].v[2][2]>>),
                               PyList(<<out[j].v[1][2], out[j].v[2][2]>>))
            /\ data'.v[2][2] =
                  (IF has_key(view_result, "type")
                   THEN getitem(view_result, "type") ELSE PyStr("standard"))
            /\ data'.v[3][2] =
                  (IF has_key(view_result, "percentage")
                   THEN getitem(view_result, "percentage") ELSE PyStr("show"))
    ]_vars
C13_Witness ==
    /\ Converted("funnel")
    /\ data = PyDict(<< <<"item", PyList(<<FunnelEntry(PyList(<<PyInt(100), PyStr("a")>>)),
                                           FunnelEntry(PyList(<<PyInt(50), PyStr("ab")>>)),
                                           FunnelEntry(PyList(<<PyInt(50), PyStr("a")>>))>>)>>,
                        <<"type", PyStr("standard")>>,
                        <<"percentage", PyStr("hide")>> >>)
    /\ has_key(view_result, "sort")

\* the value at the end of a path of keys
RECURSIVE Path(_, _)
Path(d, p) == IF p = <<>> THEN d ELSE Path(getitem(d, Head(p)), Tail(p))
HasPath(d, p) ==
    \A n \in 1..Len(p) :
        LET at == Path(d, SubSeq(p, 1, n - 1)) IN IsDict(at) /\ has_key(at, p[n])

\* <<start, end>> of a range of the Bullet output
OutRange(d, name) ==
    <<Path(d, <<"item", "range", name, "start">>),
      Path(d, <<"item", "range", name, "end">>)>>

\* the axis points of a Bullet result, their largest and smallest
AxisInts(r) ==
    LET pts == getitem(r, "axis_points").v IN {pts[i].v : i \in 1..Len(pts)}
Hi(r) == CHOOSE x \in AxisInts(r) : \A y \in AxisInts(r) : y <= x
Lo(r) == CHOOSE x \in AxisInts(r) : \A y \in AxisInts(r) : x <= y

\* the scale of a Bullet result: the largest of 1e9, 1e6, 1e3 that is at
\* most the largest axis point; 1 when there is none, when auto_scale is
\* false and when there are no axis points
ScaleOf(r) ==
    LET on == ~has_key(r, "auto_scale") \/ getitem(r, "auto_scale") = PyBool(TRUE)
        fit == IF AxisInts(r) = {} THEN {}
               ELSE {n \in {1000000000, 1000000, 1000} : n <= Hi(r)}
    IN  IF on /\ fit # {} THEN CHOOSE n \in fit : \A k \in fit : k <= n ELSE 1

\* out is the float nearest to v / scale among those of two decimals
RoundedTo(out, v, scale) ==
    /\ out.k = "float"
    /\ 2 * (v - out.v * (scale \div 100)) <= scale \div 100
    /\ 2 * (out.v * (scale \div 100) - v) <= scale \div 100
\* out is the int v as the output of result r carries it
ScaledAs(out, v, r) ==
    IF ScaleOf(r) > 1 THEN RoundedTo(out, v, ScaleOf(r)) ELSE out = PyInt(v)

\* the ranges a Bullet result gets by default, as <<start, end>> of int
DefaultRanges(r) ==
    LET third == (Hi(r) - Lo(r)) \div 3 IN
    IF AxisInts(r) = {}
    THEN [red |-> <<0, 0>>, amber |-> <<0, 0>>, green |-> <<0, 0>>]
    ELSE [red |-> <<Lo(r), Lo(r) + third - 1>>,
          amber |-> <<Lo(r) + third, Hi(r) - third - 1>>,
          green |-> <<Hi(r) - third, Hi(r)>>]
SomeRangeMissing(r) == \E name \in {"red", "amber", "green"} : ~has_key(r, name)

\* C14: when the Bullet result lacks red, amber or green, all three ranges
\* of the output are the defaults from the axis points, (lo, lo+third-1),
\* (lo+third, hi-third-1), (hi-third, hi) with third = (hi-lo) div 3, and
\* (0, 0) for no axis points, whatever ranges the result did have; when it
\* has all three, the output has those.  (Each number as the output carries
\* it: scaled when the result is scaled.)  Axis points 0, 200, ..., 1000
\* not scaled give red (0, 332), amber (333, 666), green (667, 1000).
C14_BulletDefaultRanges ==
    [][Converts("bullet") =>
        LET r == view_result
            expected(name) ==
                IF SomeRangeMissing(r) THEN DefaultRanges(r)[name]
                ELSE <<getitem(r, name).v[1].v, getitem(r, name).v[2].v>>
        IN  /\ \A name \in {"red", "amber", "green"} : \A k \in 1..2 :
                  ScaledAs(OutRange(data', name)[k], expected(name)[k], r)
            /\ (/\ getitem(r, "axis_points")
                      = IntList(<<0, 200, 400, 600, 800, 1000>>)
                /\ SomeRangeMissing(r) /\ ScaleOf(r) = 1)
               => /\ OutRange(data', "red") = <<PyInt(0), PyInt(332)>>
                  /\ OutRange(data', "amber") = <<PyInt(333), PyInt(666)>>
                  /\ OutRange(data', "green") = <<PyInt(667), PyInt(1000)>>
    ]_vars
\* a result with red (0, 100) and without amber and green got the defaults
C14_Witness ==
    /\ Converted("bullet")
    /\ has_key(view_result, "red") /\ ~has_key(view_result, "amber")
    /\ dict_get(view_result, "auto_scale", None) = PyBool(FALSE)
    /\ OutRange(data, "red") = <<PyInt(0), PyInt(332)>>
    /\ OutRange(data, "amber") = <<PyInt(333), PyInt(666)>>
    /\ OutRange(data, "green") = <<PyInt(667), PyInt(1000)>>

\* C15: the Bullet conversion fails with the required-key error exactly
\* when the result lacks one of label, axis_points, current, comparative;
\* a result that has these four is converted.
C15_BulletRequiredKeys ==
    [][(kind = "bullet" /\ pc = "convert") =>
        LET absent == \E key \in {"label", "axis_points", "current",
                                   "comparative"} : ~has_key(view_result, key)
        IN  /\ absent => pc' = "raised" /\ raised' = "RuntimeError"
            /\ ~absent => pc' = "render"
    ]_vars

\* a Bullet result that has label, axis_points, current and the comparative
\* value (under the key of the tests or under the key of the code)
HasBulletKeys(r) ==
    /\ \A key \in {"label", "axis_points", "current"} : has_key(r, key)
    /\ has_key(r, "comparative") \/ has_key(r, "comparitive")
ComparativeOf(r) ==
    IF has_key(r, "comparative") THEN getitem(r, "comparative")
    ELSE getitem(r, "comparitive")
\* <<start, end>> of current / projected of a result, as int
MeasureOf(r, name) ==
    LET x == getitem(r, name)
    IN  IF IsList(x) THEN <<x.v[1].v, x.v[2].v>> ELSE <<0, x.v>>
OutMeasure(d, name) ==
    <<Path(d, <<"item", "measure", name, "start">>),
      Path(d, <<"item", "measure", name, "end">>)>>

\* C16: the Bullet output has item.comparative, a mapping whose point is
\* the comparative value of the input (scaled when the result is scaled);
\* measure.current of a scalar current v is (0, v); orientation is
\* "horizontal" when the input has none; measure has projected only when
\* the input has it.
C16_BulletOutput ==
    [][(kind = "bullet" /\ pc = "convert" /\ HasBulletKeys(view_result)) =>
        LET r == view_result IN
        /\ pc' = "render"
        /\ HasPath(data', <<"item", "comparative", "point">>)
        /\ ScaledAs(Path(data', <<"item", "comparative", "point">>),
                    ComparativeOf(r).v, r)
        /\ \A k \in 1..2 : ScaledAs(OutMeasure(data', "current")[k],
                                     MeasureOf(r, "current")[k], r)
        /\ Path(data', <<"orientation">>) =
              (IF has_key(r, "orientation") THEN getitem(r, "orientation")
               ELSE PyStr("horizontal"))
        /\ HasPath(data', <<"item", "measure", "projected">>)
              <=> has_key(r, "projected")
    ]_vars

\* C17: the scale of a Bullet conversion is the largest of 1e9, 1e6, 1e3
\* that the largest axis point reaches when auto_scale is true or absent
\* and there are axis points, and 1 otherwise; with a scale above 1 every
\* number of the output (axis points, current, projected, red, amber,
\* green, the comparative value) is its input value divided by the scale
\* and rounded to two decimals; with scale 1 it is the input value.
C17_BulletAutoScale ==
    [][Converts("bullet") =>
        LET r == view_result
            d == data'
            pts == getitem(r, "axis_points").v
            out == Path(d, <<"item", "axis", "point">>).v
            ranges(name) ==
                IF SomeRangeMissing(r) THEN DefaultRanges(r)[name]
                ELSE <<getitem(r, name).v[1].v, getitem(r, name).v[2].v>>
        IN  /\ Len(out) = Len(pts)
            /\ \A i \in 1..Len(pts) : ScaledAs(out[i], pts[i].v, r)
            /\ \A k \in 1..2 :
                  /\ ScaledAs(OutMeasure(d, "current")[k],
                              MeasureOf(r, "current")[k], r)
                  /\ has_key(r, "projected") =>
                        ScaledAs(OutMeasure(d, "projected")[k],
                                 MeasureOf(r, "projected")[k], r)
                  /\ \A name \in {"red", "amber", "green"} :
                        ScaledAs(OutRange(d, name)[k], ranges(name)[k], r)
            /\ ScaledAs(Path(d, <<"item", "comparitive">>),
                        getitem(r, "comparitive").v, r)
    ]_vars
\* the values of test_auto_scale
C17_Witness ==
    /\ Converted("bullet")
    /\ Path(data, <<"item", "axis", "point">>) =
          PyList(<<PyFloat(0), PyFloat(20), PyFloat(40), PyFloat(60),
                   PyFloat(80), PyFloat(100)>>)
    /\ OutMeasure(data, "current") = <<PyFloat(0), PyFloat(50)>>
    /\ Path(data, <<"item", "comparitive">>) = PyFloat(60)
    /\ OutRange(data, "red") = <<PyFloat(0), PyFloat(33)>>
    /\ OutRange(data, "amber") = <<PyFloat(33), PyFloat(67)>>
    /\ OutRange(data, "green") = <<PyFloat(67), PyFloat(100)>>
    /\ response.status = 200

\* the label of a scale, and the label capitalized
ScaleLabel(n) ==
    CASE n = 1000000000 -> <<"billions", "Billions">>
      [] n = 1000000 -> <<"millions", "Millions">>
      [] n = 1000 -> <<"thousands", "Thousands">>
\* the sublabel of the Bullet output for input r: absent when given is
\* FALSE and the result is not scaled
SublabelRule(d, r, given) ==
    IF ScaleOf(r) > 1
    THEN /\ HasPath(d, <<"item", "sublabel">>)
         /\ Path(d, <<"item", "sublabel">>) =
               (IF given
                THEN PyStr(getitem(r, "sublabel").v \o " ("
                           \o ScaleLabel(ScaleOf(r))[1] \o ")")
                ELSE PyStr(ScaleLabel(ScaleOf(r))[2]))
    ELSE IF has_key(r, "sublabel")
         THEN /\ HasPath(d, <<"item", "sublabel">>)
              /\ Path(d, <<"item", "sublabel">>) = getitem(r, "sublabel")
         ELSE ~HasPath(d, <<"item", "sublabel">>)

\* C18 as stated: a scaled Bullet output has the capitalized scale label as
\* its sublabel when the input has no sublabel, and "<sublabel> (<scale
\* label>)" when the input has one; an output that is not scaled has the
\* sublabel of the input, none when the input has none.
C18_SublabelWhenPresent ==
    [][Converts("bullet") =>
        SublabelRule(data', view_result, has_key(view_result, "sublabel"))]_vars
\* C18: a scaled Bullet output has the capitalized scale label as its
\* sublabel when the input has no sublabel or an empty one, and
\* "<sublabel> (<scale label>)" when the input has one that is not empty;
\* an output that is not scaled has the sublabel of the input, none when
\* the input has none.
C18_BulletSublabel ==
    [][Converts("bullet") =>
        SublabelRule(data', view_result,
                     /\ has_key(view_result, "sublabel")
                     /\ getitem(view_result, "sublabel") # PyStr(""))]_vars
C18_Witness ==
    /\ Converted("bullet")
    /\ Path(data, <<"item", "axis", "point">>) = PyList(<<PyFloat(0), PyFloat(300)>>)
    /\ Path(data, <<"item", "sublabel">>) = PyStr("sub (millions)")

\* an axis as the Line chart output has it: a sequence of labels as it
\* is, a label alone as the sequence of that label, None as an empty string
\* in such a sequence
AxisOf(x) ==
    IF IsList(x) THEN x
    ELSE IF x = None THEN PyList(<<PyStr("")>>) ELSE PyList(<<x>>)

\* C19: the Line chart output is item, the values as given, and settings;
\* settings has axisx exactly when the input has 2 elements or more, axisy
\* when it has 3 or more, colour when it has 4 (in this order, and nothing
\* else); an axis that is None is the empty string, a label alone is put
\* in a sequence, a sequence of labels is passed as it is.
C19_LineChartSettings ==
    Converted("line_chart") =>
        LET n == Len(Elems)
            settings == data.v[2][2].v
            keys == <<"axisx", "axisy", "colour">>
        IN  /\ Len(data.v) = 2
            /\ data.v[1] = <<"item", Elems[1]>>
            /\ data.v[2][1] = "settings"
            /\ Len(settings) = n - 1
            /\ \A i \in 1..(n - 1) :
                  /\ settings[i][1] = keys[i]
                  /\ settings[i][2] =
                        (IF i < 3 THEN AxisOf(Elems[i + 1]) ELSE Elems[4])
C19_Witness ==
    /\ Converted("line_chart")
    /\ view_result = PyList(<<PyList(<<PyInt(1), PyInt(0)>>), None, PyStr("test"),
                              PyStr("00112233")>>)
    /\ data = PyDict(<< <<"item", PyList(<<PyInt(1), PyInt(0)>>)>>,
                        <<"settings",
                          PyDict(<< <<"axisx", PyList(<<PyStr("")>>)>>,
                                    <<"axisy", PyList(<<PyStr("test")>>)>>,
                                    <<"colour", PyStr("00112233")>> >>)>> >>)

\* C20: a conversion leaves the result of the view as it was: the mapping
\* and the sequences in it have the same contents in the same order after
\* the call (the items of a Funnel result with sort, comparative and
\* sublabel of a Bullet result).
C20_ResultUnchanged ==
    [][pc = "convert" => view_result' = view_result]_vars

\* min / max of a Gauge result as the output has it: value, and text only
\* for a (value, text) pair
GaugeBound(x) ==
    IF IsList(x) /\ Len(x.v) = 2
    THEN PyDict(<< <<"value", x.v[1]>>, <<"text", x.v[2]>> >>)
    ELSE PyDict(<< <<"value", AsSeq(x)[1]>> >>)
\* the Gauge output has exactly the keys of order, in this order, and the
\* root element of an XML document has their elements in this order
GaugeOrder(order) ==
    /\ [i \in 1..Len(data.v) |-> data.v[i][1]] = order
    /\ RenderedXml => [i \in 1..Len(doc.kids) |-> doc.kids[i].tag] = order
GaugeValues ==
    /\ getitem(data, "item") = Elems[1]
    /\ getitem(data, "min") = GaugeBound(Elems[2])
    /\ getitem(data, "max") = GaugeBound(Elems[3])

\* C23 as stated: the Gauge output has exactly the keys item, min, max in
\* this order, and XML output has the elements item, min, max in this
\* order; item is the value, min and max are mappings with value, and with
\* text only for a (value, text) pair.
C23_GaugeItemMinMax ==
    Converted("geck_o_meter") =>
        GaugeOrder(<<"item", "min", "max">>) /\ GaugeValues
\* C23: the Gauge output has exactly the keys item, max, min in this
\* order, and XML output has the elements item, max, min in this order;
\* item is the value, min and max are mappings with value, and with text
\* only for a (value, text) pair.
C23_GaugeItemMaxMin ==
    Converted("geck_o_meter") =>
        GaugeOrder(<<"item", "max", "min">>) /\ GaugeValues
C23_Witness ==
    /\ Converted("geck_o_meter")
    /\ view_result = PyList(<<PyInt(1), PyInt(0),
                              PyList(<<PyInt(1), PyStr("test")>>)>>)
    /\ RenderedXml
    /\ response.content = XmlDeclaration
          \o "<root><item>1</item><max><value>1</value><text>test</text></max>"
          \o "<min><value>0</value></min></root>"

\* the body of the response is the JSON / the XML rendering of the output
JsonBody == doc = NoDoc /\ response.content = _render_json(data)
XmlBody == doc # NoDoc /\ response.content = XmlDeclaration \o writexml(doc)

\* the POST / GET parameters of the request have format f
PostIs(f) == <<"format", f>> \in request.POST
GetIs(f) == <<"format", f>> \in request.GET
\* POST has no format, or an empty one
PostEmpty == \A p \in request.POST : p[1] = "format" => p[2] = ""

\* C24: the format is read from POST first and from GET only when POST has
\* none or an empty one: POST "1" with GET "2" renders XML, POST "2" with
\* any GET renders JSON, an empty or absent POST format with GET "2" renders
\* JSON, and with a non-empty POST format the GET format plays no part.
C24_PostBeforeGet ==
    Rendered =>
        /\ (PostIs("1") /\ GetIs("2")) => XmlBody
        /\ PostIs("2") => JsonBody
        /\ (PostEmpty /\ GetIs("2")) => JsonBody
        /\ ~PostEmpty => (JsonBody <=> PostIs("2"))
        /\ PostEmpty => (JsonBody <=> GetIs("2"))
        /\ JsonBody \/ XmlBody
C24_Witness ==
    /\ Rendered
    /\ request.POST = {<<"format", "1">>}
    /\ request.GET = {<<"format", "2">>}
    /\ XmlBody
    /\ response.content = "<?xml version=\"1.0\" ?><root>test</root>"

\* the ints of a range of the Bullet output, <<start, end>>
RangeInts(d, name) == <<OutRange(d, name)[1].v, OutRange(d, name)[2].v>>

\* C26: the default ranges the Bullet conversion computes from axis points
\* of int that are not empty, when nothing is scaled, tile the span: red
\* starts at the least point, amber starts one after the end of red, green
\* one after the end of amber, and green ends at the greatest point; every
\* range has start <= end exactly when the span is 3 or more, and for a
\* span below 3 red ends one before its start.
C26_DefaultRangesTile ==
    [][(/\ Converts("bullet")
        /\ SomeRangeMissing(view_result)
        /\ AxisInts(view_result) # {}
        /\ ScaleOf(view_result) = 1) =>
        LET red == RangeInts(data', "red")
            amber == RangeInts(data', "amber")
            green == RangeInts(data', "green")
            span == Hi(view_result) - Lo(view_result)
        IN  /\ red[1] = Lo(view_result)
            /\ red[2] + 1 = amber[1]
            /\ amber[2] + 1 = green[1]
            /\ green[2] = Hi(view_result)
            /\ (\A range \in {red, amber, green} : range[1] <= range[2])
                  <=> span >= 3
            /\ span < 3 => red[2] = red[1] - 1
    ]_vars
\* axis points -7 and -5 (span 2) gave red (-7, -8), amber (-7, -6), green
\* (-5, -5)
C26_Witness ==
    /\ Converted("bullet")
    /\ SomeRangeMissing(view_result)
    /\ getitem(view_result, "axis_points") = IntList(<<0 - 7, 0 - 5>>)
    /\ RangeInts(data, "red") = <<0 - 7, 0 - 8>>
    /\ RangeInts(data, "amber") = <<0 - 7, 0 - 6>>
    /\ RangeInts(data, "green") = <<0 - 5, 0 - 5>>

\* C25: when the Bullet conversion fails with the required-key error, the
\* result the view returned is as it was, there is no output mapping, and
\* nothing is rendered: no document, no response, no call of _render.
C25_FailsBeforeWrites ==
    [][(kind = "bullet" /\ pc = "convert" /\ pc' = "raised") =>
        /\ raised' = "RuntimeError"
        /\ view_result' = view_result
        /\ handlerValue' = handlerValue
        /\ data' = None
        /\ doc' = NoDoc
        /\ response' = NoResponse
        /\ \A i \in 1..Len(calls') : calls'[i] # "_render"
    ]_vars
\* a result with axis points up to 1000 and without current was refused
C25_Witness ==
    /\ kind = "bullet" /\ pc = "raised" /\ raised = "RuntimeError"
    /\ has_key(view_result, "axis_points") /\ ~has_key(view_result, "current")
    /\ BulletWidgetDecorator_scale(view_result) > 1
    /\ ~has_key(view_result, "sublabel")
    /\ data = None /\ response = NoResponse

\* what the request returned, as served keeps it
Output == [data |-> data, content |-> response.content]

\* C21: when the view returns the same mapping for every request, each
\* later request of a bullet view gets the output the first one got.
C21_SameOutputEveryRequest ==
    (kind = "bullet" /\ Rendered /\ served # <<>>) => Output = served[1]

\* what a request alone gets from the object as the view first returned it
Alone ==
    LET d == _convert_view_result(kind, original)
    IN  [data |-> d, content |-> _render(request, d)]

\* C22: of two requests that convert and render the same funnel or bullet
\* mapping at the same time, each gets the output it would get alone from
\* the mapping as it was, in every order of their steps.
C22_ConcurrentAsAlone ==
    /\ Rendered => Output = Alone
    /\ peer.pc = "done" =>
          [data |-> peer.data, content |-> peer.response.content] = Alone

====
